---- MODULE Spec2Model ----
(***************************************************************************)
(* Model of src/src/app.js: the text chunker (chunkText), the ingestion    *)
(* handler (POST /api/upload), the query handler (POST /api/ask), the      *)
(* Slack handler (POST /api/slack/ask) and the root forwarder (POST /),    *)
(* together with the two tables of the store and the match_chunks search.  *)
(*                                                                         *)
(* A text is a sequence of one-character strings; indexes are 0-based in   *)
(* the operators that model JavaScript string methods.                     *)
(***************************************************************************)
EXTENDS Integers, Sequences, FiniteSets, TLC

VARIABLES
    route,        \* which handler / function is running
    pc,           \* position inside it
    text,         \* chunkText's argument / the text returned by parseFile
    chunks,       \* chunkText's accumulator / the handler's chunks
    startIndex,   \* chunkText's loop variable
    windows,      \* history: the [start, end) window cut by each iteration
    embeddings,   \* getEmbeddings' accumulator
    filename,     \* req.file.filename of the upload in flight (0: none)
    fileExists,   \* is the transient upload file on disk
    document,     \* the row returned by the documents insert
    documents,    \* table documents
    chunkRows,    \* table chunks
    question,     \* req.body.question / req.body.text
    queryEmbedding, \* the embedding of the question
    similarChunks,\* result of getSimilarChunks
    error,        \* the error caught by the handler's catch block
    response,     \* the response sent (NoResponse before)
    respCount,    \* number of responses sent for the request
    trace         \* history: the external calls of the request, in order

vars == <<route, pc, text, chunks, startIndex, windows, embeddings, filename,
          fileExists, document, documents, chunkRows, question, queryEmbedding,
          similarChunks, error, response, respCount, trace>>

(***************************************************************************)
(* Bounds of the model                                                     *)
(***************************************************************************)
MaxBlocks == 10      \* chunker inputs are at most MaxBlocks * 200 + 1 long
MaxBreaks == 2       \* at most this many sentence terminators in an input
MaxDocuments == 1    \* uploads are accepted while fewer documents exist
MaxVec == 2          \* the embedding service answers with a vector in 1..MaxVec

(***************************************************************************)
(* Program constants                                                       *)
(***************************************************************************)
chunkSize == 1000
overlap == 200
limit == 5

NoResponse == [status |-> 0]
NoDocument == [id |-> 0]
NoError == <<>>

Min(a, b) == IF a < b THEN a ELSE b
SetMax(S) == CHOOSE x \in S : \A y \in S : y <= x

(***************************************************************************)
(* JavaScript string methods, on sequences of characters                   *)
(***************************************************************************)
WhiteSpace == {" ", "\n", "\t"}

\* String.prototype.slice(s, e) for 0 <= s: characters s .. e-1, clamped.
slice(str, s, e) == SubSeq(str, s + 1, Min(e, Len(str)))

\* String.prototype.lastIndexOf(c): 0-based index of the last c, or -1.
lastIndexOf(str, c) ==
    LET S == {i \in 1..Len(str) : str[i] = c}
    IN  IF S = {} THEN -1 ELSE SetMax(S) - 1

\* Math.max of three numbers.
MathMax(a, b, c) == SetMax({a, b, c})

\* String.prototype.trim(): drop leading and trailing white space.
trim(str) ==
    LET n == Len(str)
        Blank(i) == str[i] \in WhiteSpace
    IN  IF \A i \in 1..n : Blank(i) THEN <<>>
        ELSE SubSeq(str,
                    CHOOSE i \in 1..n : ~Blank(i) /\ \A j \in 1..(i - 1) : Blank(j),
                    CHOOSE i \in 1..n : ~Blank(i) /\ \A j \in (i + 1)..n : Blank(j))

(***************************************************************************)
(* chunkText (app.js 103-131)                                              *)
(***************************************************************************)
\* Variant: any sentence terminator in the window is taken as the cut.
BreakAcceptedAnywhere(lastBreak) == lastBreak # -1

\* The sentence-break test of one iteration (lines 115-120).
BreakAccepted(lastBreak) == lastBreak # -1 /\ lastBreak > chunkSize - overlap

\* endIndex at the end of one iteration that starts at start (lines 110-124).
CutEnd(str, start) ==
    LET endIndex == start + chunkSize
        chunk == slice(str, start, endIndex)
    IN  IF endIndex < Len(str)
        THEN LET lastBreak == MathMax(lastIndexOf(chunk, "."),
                                      lastIndexOf(chunk, "?"),
                                      lastIndexOf(chunk, "!"))
             IN  IF BreakAccepted(lastBreak)
                 THEN start + lastBreak + 1
                 ELSE endIndex
        ELSE endIndex

\* The chunk pushed by that iteration (line 126).
CutChunk(str, start) == trim(slice(str, start, CutEnd(str, start)))

\* Variant: the window is moved back by its whole size (overlap = chunkSize).
NextStartFullOverlap(endIndex) == endIndex - chunkSize

\* The start of the next window (line 127).
NextStart(endIndex) == endIndex - overlap

RECURSIVE chunkLoop(_, _, _)
chunkLoop(str, start, acc) ==
    IF start < Len(str)
    THEN chunkLoop(str, NextStart(CutEnd(str, start)),
                   Append(acc, CutChunk(str, start)))
    ELSE acc

chunkText(str) == chunkLoop(str, 0, <<>>)

(***************************************************************************)
(* Inputs of the chunker: texts of letters with terminators and spaces at  *)
(* chosen positions.                                                       *)
(***************************************************************************)
Terminators == <<".", "?", "!">>

MkText(len, breaks, spaced) ==
    [i \in 1..len |->
        IF (i - 1) \in breaks THEN Terminators[((i - 1) % 3) + 1]
        ELSE IF spaced /\ ((i - 1) = 0 \/ i = len \/ (i - 1) % 200 = 199) THEN " "
        ELSE "a"]

Lengths == {k * 200 + d : k \in 0..MaxBlocks, d \in {0, 1}}
BreakGrid == {k * 400 + d : k \in 1..(MaxBlocks \div 2), d \in {0, 1}}
BreakSets == {B \in SUBSET BreakGrid : Cardinality(B) <= MaxBreaks}

(***************************************************************************)
(* The chunker as a state machine: one action per loop iteration           *)
(***************************************************************************)
HttpIdle ==
    /\ embeddings = <<>>
    /\ filename = 0
    /\ fileExists = FALSE
    /\ document = NoDocument
    /\ documents = {}
    /\ chunkRows = {}
    /\ question = ""
    /\ queryEmbedding = 0
    /\ similarChunks = <<>>
    /\ error = NoError
    /\ response = NoResponse
    /\ respCount = 0
    /\ trace = <<>>

HttpUnchanged ==
    UNCHANGED <<embeddings, filename, fileExists, document, documents, chunkRows,
                question, queryEmbedding, similarChunks, error, response, respCount,
                trace>>

InitChunk ==
    /\ route = "chunkText"
    /\ pc = "loop"
    /\ \E len \in Lengths, B \in BreakSets, sp \in BOOLEAN :
           text = MkText(len, {b \in B : b < len}, sp)
    /\ chunks = <<>>
    /\ startIndex = 0
    /\ windows = <<>>
    /\ HttpIdle

\* One iteration of the while loop (lines 109-128).
ChunkIterate ==
    /\ route = "chunkText" /\ pc = "loop"
    /\ startIndex < Len(text)
    /\ LET endIndex == CutEnd(text, startIndex)
       IN  /\ chunks' = Append(chunks, CutChunk(text, startIndex))
           /\ windows' = Append(windows, [start |-> startIndex, end |-> endIndex])
           /\ startIndex' = NextStart(endIndex)
    /\ UNCHANGED <<route, pc, text>>
    /\ HttpUnchanged

\* The loop condition fails: return chunks (lines 109, 130).
ChunkReturn ==
    /\ route = "chunkText" /\ pc = "loop"
    /\ ~(startIndex < Len(text))
    /\ pc' = "returned"
    /\ UNCHANGED <<route, text, chunks, startIndex, windows>>
    /\ HttpUnchanged

NextChunk == ChunkIterate \/ ChunkReturn

SpecChunk == InitChunk /\ [][NextChunk]_vars

(***************************************************************************)
(* The external services: each call has a set of possible outcomes         *)
(***************************************************************************)
Vectors == 1..MaxVec
ApiErrors == {"service unavailable"}

\* fsPromises.unlink(req.file.path): succeeds only on an existing file.
UnlinkOutcomes == IF fileExists THEN {TRUE, FALSE} ELSE {FALSE}

\* parseFile (app.js 134-164): the extracted text, or the wrapped error.
UploadTexts ==
    { MkText(0, {}, FALSE), MkText(3, {1}, TRUE),
      MkText(chunkSize - overlap + 1, {}, FALSE),
      MkText(chunkSize + 1, {chunkSize - overlap + 1}, TRUE) }

parseFile ==
    {[ok |-> TRUE, text |-> t] : t \in UploadTexts}
    \cup {[ok |-> FALSE, message |-> <<"Error parsing file: ", e>>] : e \in ApiErrors}

\* One openai.embeddings.create call inside getEmbeddings (app.js 170-180).
getEmbeddingsCall ==
    {[ok |-> TRUE, embedding |-> v] : v \in Vectors}
    \cup {[ok |-> FALSE, message |-> <<"Error generating embeddings: ", e>>] :
            e \in ApiErrors}

\* getEmbedding (app.js 184-194).
getEmbedding ==
    {[ok |-> TRUE, embedding |-> v] : v \in Vectors}
    \cup {[ok |-> FALSE, message |-> <<"Error generating embedding: ", e>>] :
            e \in ApiErrors}

\* The errors thrown after a failed insert (app.js 273, 287).
DocumentError == <<"Error inserting document: ", "store error">>
ChunksError == <<"Error inserting chunks: ", "store error">>

\* The rejection of fsPromises.unlink.
UnlinkError == <<"EPERM: operation not permitted, unlink">>

\* The row built by the documents insert (app.js 263-271): a fresh id.
NewDocument == [id |-> Cardinality(documents) + 1, filename |-> filename]

\* Variant: chunk_index counted from one.
chunksToInsertOneBased(cs, es, doc) ==
    {[document_id |-> doc.id, chunk_index |-> i, content |-> cs[i],
      embedding |-> es[i]] : i \in 1..Len(cs)}

\* chunksToInsert (app.js 276-281), as the set of rows it holds.
chunksToInsert(cs, es, doc) ==
    {[document_id |-> doc.id, chunk_index |-> i - 1, content |-> cs[i],
      embedding |-> es[i]] : i \in 1..Len(cs)}

\* unique("document_id", "chunk_index") of table chunks (migration 16-27).
UniqueChunkIndex(rows) ==
    \A r1, r2 \in rows :
        (r1.document_id = r2.document_id /\ r1.chunk_index = r2.chunk_index) => r1 = r2

\* match_chunks: the rows of chunks ordered by distance to the query, at most
\* match_count of them, each with its similarity.
Distance(v, q) == IF v < q THEN q - v ELSE v - q

match_chunks(query_embedding, match_count) ==
    LET k == Min(match_count, Cardinality(chunkRows))
        D(r) == Distance(r.embedding, query_embedding)
        Ordered == {s \in [1..k -> chunkRows] :
                      /\ \A i, j \in 1..k : i < j => (s[i] # s[j] /\ D(s[i]) <= D(s[j]))
                      /\ \A r \in chunkRows :
                           (\A i \in 1..k : s[i] # r) => \A i \in 1..k : D(s[i]) <= D(r)}
    IN  {[i \in 1..k |-> [content |-> s[i].content,
                          document_id |-> s[i].document_id,
                          chunk_index |-> s[i].chunk_index,
                          similarity |-> 1 - D(s[i])]] : s \in Ordered}

\* getSimilarChunks (app.js 197-209): the rows, null, or the wrapped error.
getSimilarChunks(embedding) ==
    {[ok |-> TRUE, isNull |-> FALSE, chunks |-> s] : s \in match_chunks(embedding, limit)}
    \cup {[ok |-> TRUE, isNull |-> TRUE, chunks |-> <<>>]}
    \cup {[ok |-> FALSE, message |-> <<"Error finding similar chunks: ", e>>] :
            e \in ApiErrors}

\* generateResponse (app.js 212-243): the trimmed completion, or the wrapped error.
Answers == {"an answer"}

generateResponse(q, contexts) ==
    {[ok |-> TRUE, answer |-> a] : a \in Answers}
    \cup {[ok |-> FALSE, message |-> <<"Error generating GPT response: ", e>>] :
            e \in ApiErrors}

Event(op, ok, arg) == [op |-> op, ok |-> ok, arg |-> arg]

(***************************************************************************)
(* Requests                                                                *)
(***************************************************************************)
Init ==
    /\ route = "none"
    /\ pc = "idle"
    /\ text = <<>>
    /\ chunks = <<>>
    /\ startIndex = 0
    /\ windows = <<>>
    /\ HttpIdle

\* Send a response and end the handler.
Respond(r) ==
    /\ response' = r
    /\ respCount' = respCount + 1
    /\ pc' = "done"

\* The handler has returned: its locals are gone, the store stays.
RequestEnd ==
    /\ pc = "done" /\ route # "chunkText"
    /\ pc' = "idle"
    /\ route' = "none"
    /\ text' = <<>> /\ chunks' = <<>> /\ embeddings' = <<>>
    /\ filename' = 0 /\ fileExists' = FALSE
    /\ document' = NoDocument
    /\ question' = "" /\ queryEmbedding' = 0 /\ similarChunks' = <<>>
    /\ error' = NoError
    /\ response' = NoResponse /\ respCount' = 0
    /\ trace' = <<>>
    /\ UNCHANGED <<startIndex, windows, documents, chunkRows>>

(***************************************************************************)
(* POST /api/upload (app.js 246-310)                                       *)
(***************************************************************************)
\* No file in the request (lines 248-250).
UploadNoFile ==
    /\ pc = "idle"
    /\ route' = "upload"
    /\ Respond([status |-> 400, error |-> <<"No file uploaded">>])
    /\ UNCHANGED <<text, chunks, startIndex, windows, embeddings, filename, fileExists,
                   document, documents, chunkRows, question, queryEmbedding,
                   similarChunks, error, trace>>

\* multer has stored the file under a unique name; parseFile is called (254).
UploadReceived ==
    /\ pc = "idle"
    /\ Cardinality(documents) < MaxDocuments
    /\ route' = "upload"
    /\ pc' = "parse"
    /\ filename' = Cardinality(documents) + 1
    /\ fileExists' = TRUE
    /\ UNCHANGED <<text, chunks, startIndex, windows, embeddings, document, documents,
                   chunkRows, question, queryEmbedding, similarChunks, error, response,
                   respCount, trace>>

\* parseFile returns or throws; on success chunkText runs and getEmbeddings
\* starts (lines 254-260).
UploadParse ==
    /\ route = "upload" /\ pc = "parse"
    /\ \E r \in parseFile :
        IF r.ok
        THEN /\ text' = r.text
             /\ chunks' = chunkText(r.text)
             /\ pc' = "embed"
             /\ trace' = trace \o <<Event("parseFile", TRUE, 0), Event("chunkText", TRUE, 0)>>
             /\ UNCHANGED error
        ELSE /\ error' = r.message
             /\ pc' = "catch"
             /\ trace' = Append(trace, Event("parseFile", FALSE, r.message))
             /\ UNCHANGED <<text, chunks>>
    /\ UNCHANGED <<route, startIndex, windows, embeddings, filename, fileExists, document,
                   documents, chunkRows, question, queryEmbedding, similarChunks,
                   response, respCount>>

\* Variant: a failed embedding call is skipped and the loop goes on.
UploadEmbedSkip ==
    /\ route = "upload" /\ pc = "embed"
    /\ Len(embeddings) < Len(chunks)
    /\ \E r \in getEmbeddingsCall :
        IF r.ok
        THEN /\ embeddings' = Append(embeddings, r.embedding)
             /\ trace' = Append(trace, Event("embed", TRUE, r.embedding))
        ELSE /\ embeddings' = Append(embeddings, 0)
             /\ trace' = Append(trace, Event("embed", FALSE, r.message))
    /\ UNCHANGED <<route, pc, text, chunks, startIndex, windows, filename, fileExists,
                   document, documents, chunkRows, question, queryEmbedding,
                   similarChunks, error, response, respCount>>

\* One iteration of getEmbeddings' loop (lines 170-176), or its catch (178-180).
UploadEmbed ==
    /\ route = "upload" /\ pc = "embed"
    /\ Len(embeddings) < Len(chunks)
    /\ \E r \in getEmbeddingsCall :
        IF r.ok
        THEN /\ embeddings' = Append(embeddings, r.embedding)
             /\ trace' = Append(trace, Event("embed", TRUE, r.embedding))
             /\ UNCHANGED <<pc, error>>
        ELSE /\ error' = r.message
             /\ pc' = "catch"
             /\ trace' = Append(trace, Event("embed", FALSE, r.message))
             /\ UNCHANGED embeddings
    /\ UNCHANGED <<route, text, chunks, startIndex, windows, filename, fileExists,
                   document, documents, chunkRows, question, queryEmbedding,
                   similarChunks, response, respCount>>

\* getEmbeddings has returned; the documents insert answers (lines 263-273).
UploadInsertDocument ==
    /\ route = "upload" /\ pc = "embed"
    /\ Len(embeddings) = Len(chunks)
    /\ \E ok \in BOOLEAN :
        IF ok
        THEN /\ document' = NewDocument
             /\ documents' = documents \cup {NewDocument}
             /\ pc' = "insert_chunks"
             /\ trace' = Append(trace, Event("insertDocument", TRUE, 0))
             /\ UNCHANGED error
        ELSE /\ error' = DocumentError
             /\ pc' = "catch"
             /\ trace' = Append(trace, Event("insertDocument", FALSE, DocumentError))
             /\ UNCHANGED <<document, documents>>
    /\ UNCHANGED <<route, text, chunks, startIndex, windows, embeddings, filename,
                   fileExists, chunkRows, question, queryEmbedding, similarChunks,
                   response, respCount>>

\* The chunks insert answers (lines 276-287); the success path then calls unlink.
UploadInsertChunks ==
    /\ route = "upload" /\ pc = "insert_chunks"
    /\ \E ok \in BOOLEAN :
        LET rows == chunksToInsert(chunks, embeddings, document)
        IN  IF ok
            THEN /\ UniqueChunkIndex(chunkRows \cup rows)
                 /\ chunkRows' = chunkRows \cup rows
                 /\ pc' = "unlink"
                 /\ trace' = Append(trace, Event("insertChunks", TRUE, 0))
                 /\ UNCHANGED error
            ELSE /\ error' = ChunksError
                 /\ pc' = "catch"
                 /\ trace' = Append(trace, Event("insertChunks", FALSE, ChunksError))
                 /\ UNCHANGED chunkRows
    /\ UNCHANGED <<route, text, chunks, startIndex, windows, embeddings, filename,
                   fileExists, document, documents, question, queryEmbedding,
                   similarChunks, response, respCount>>

\* The success path's unlink answers (line 290); its rejection is thrown into
\* the catch block.
UploadUnlink ==
    /\ route = "upload" /\ pc = "unlink"
    /\ \E ok \in UnlinkOutcomes :
        IF ok
        THEN /\ fileExists' = FALSE
             /\ pc' = "respond"
             /\ trace' = Append(trace, Event("unlink", TRUE, 0))
             /\ UNCHANGED error
        ELSE /\ error' = UnlinkError
             /\ pc' = "catch"
             /\ trace' = Append(trace, Event("unlink", FALSE, UnlinkError))
             /\ UNCHANGED fileExists
    /\ UNCHANGED <<route, text, chunks, startIndex, windows, embeddings, filename,
                   document, documents, chunkRows, question, queryEmbedding,
                   similarChunks, response, respCount>>

\* The summary is sent (lines 292-301).
UploadRespond ==
    /\ route = "upload" /\ pc = "respond"
    /\ Respond([status |-> 200,
                message |-> "File processed and stored successfully",
                document |-> document,
                chunks_count |-> Len(chunks)])
    /\ UNCHANGED <<route, text, chunks, startIndex, windows, embeddings, filename,
                   fileExists, document, documents, chunkRows, question,
                   queryEmbedding, similarChunks, error, trace>>

\* Variant: a catch block that does not unlink the upload.
UploadCatchNoUnlink ==
    /\ route = "upload" /\ pc = "catch"
    /\ pc' = "respond_error"
    /\ UNCHANGED <<route, text, chunks, startIndex, windows, embeddings, filename,
                   fileExists, document, documents, chunkRows, question,
                   queryEmbedding, similarChunks, error, response, respCount, trace>>

\* The catch block's unlink answers (lines 304-307): a rejection is only logged.
UploadCatch ==
    /\ route = "upload" /\ pc = "catch"
    /\ \E ok \in UnlinkOutcomes :
        /\ trace' = Append(trace, Event("unlink", ok, IF ok THEN 0 ELSE UnlinkError))
        /\ fileExists' = IF ok THEN FALSE ELSE fileExists
    /\ pc' = "respond_error"
    /\ UNCHANGED <<route, text, chunks, startIndex, windows, embeddings, filename,
                   document, documents, chunkRows, question, queryEmbedding,
                   similarChunks, error, response, respCount>>

\* The caught error is sent with status 500 (line 308).
UploadRespondError ==
    /\ route = "upload" /\ pc = "respond_error"
    /\ Respond([status |-> 500, error |-> error])
    /\ UNCHANGED <<route, text, chunks, startIndex, windows, embeddings, filename,
                   fileExists, document, documents, chunkRows, question,
                   queryEmbedding, similarChunks, error, trace>>

Upload ==
    \/ UploadNoFile
    \/ UploadReceived
    \/ UploadParse
    \/ UploadEmbed
    \/ UploadInsertDocument
    \/ UploadInsertChunks
    \/ UploadUnlink
    \/ UploadRespond
    \/ UploadCatch
    \/ UploadRespondError

(***************************************************************************)
(* POST /api/ask (app.js 313-349)                                          *)
(***************************************************************************)
Questions == {"", "what is it?"}
NoAnswer == "I don't have any relevant information to answer this question."

\* chunks of the response (lines 339-342).
ResponseChunks(cs) ==
    [i \in 1..Len(cs) |-> [content |-> cs[i].content, similarity |-> cs[i].similarity]]

\* Variant: only a null result counts as empty.
NoChunksNullOnly(r) == r.isNull

\* The test for an empty retrieval (lines 327, 370).
NoChunks(r) == r.isNull \/ Len(r.chunks) = 0

HandlerUnchanged ==
    UNCHANGED <<text, chunks, startIndex, windows, embeddings, filename, fileExists,
                document, documents, chunkRows, error>>

\* The request arrives (lines 315-322): 400 without a question, else getEmbedding.
AskRequest ==
    /\ pc = "idle"
    /\ route' = "ask"
    /\ \E q \in Questions :
        /\ question' = q
        /\ IF q = ""
           THEN Respond([status |-> 400, error |-> <<"Question is required">>])
           ELSE /\ pc' = "embed"
                /\ UNCHANGED <<response, respCount>>
    /\ UNCHANGED <<queryEmbedding, similarChunks, trace>>
    /\ HandlerUnchanged

\* getEmbedding answers (line 322); its error goes to the catch block (345-348).
AskEmbed ==
    /\ route = "ask" /\ pc = "embed"
    /\ \E r \in getEmbedding :
        /\ trace' = Append(trace, Event("getEmbedding", r.ok, IF r.ok THEN 0 ELSE r.message))
        /\ IF r.ok
           THEN /\ queryEmbedding' = r.embedding
                /\ pc' = "search"
                /\ UNCHANGED <<response, respCount>>
           ELSE /\ Respond([status |-> 500, error |-> r.message])
                /\ UNCHANGED queryEmbedding
    /\ UNCHANGED <<route, question, similarChunks>>
    /\ HandlerUnchanged

\* getSimilarChunks answers (lines 325-332).
AskSearch ==
    /\ route = "ask" /\ pc = "search"
    /\ \E r \in getSimilarChunks(queryEmbedding) :
        /\ trace' = Append(trace, Event("getSimilarChunks", r.ok, IF r.ok THEN 0 ELSE r.message))
        /\ IF ~r.ok
           THEN /\ Respond([status |-> 500, error |-> r.message])
                /\ UNCHANGED similarChunks
           ELSE IF NoChunks(r)
           THEN /\ Respond([status |-> 200, answer |-> NoAnswer, chunks |-> <<>>])
                /\ similarChunks' = r.chunks
           ELSE /\ similarChunks' = r.chunks
                /\ pc' = "generate"
                /\ UNCHANGED <<response, respCount>>
    /\ UNCHANGED <<route, question, queryEmbedding>>
    /\ HandlerUnchanged

\* generateResponse answers (lines 335-343).
AskGenerate ==
    /\ route = "ask" /\ pc = "generate"
    /\ \E r \in generateResponse(question, similarChunks) :
        /\ trace' = Append(trace, Event("generateResponse", r.ok, IF r.ok THEN 0 ELSE r.message))
        /\ IF r.ok
           THEN Respond([status |-> 200, answer |-> r.answer,
                         chunks |-> ResponseChunks(similarChunks)])
           ELSE Respond([status |-> 500, error |-> r.message])
    /\ UNCHANGED <<route, question, queryEmbedding, similarChunks>>
    /\ HandlerUnchanged

Ask == AskRequest \/ AskEmbed \/ AskSearch \/ AskGenerate

(***************************************************************************)
(* POST /api/slack/ask (app.js 352-393) and POST / (app.js 50-64)          *)
(***************************************************************************)
\* res.send of the Slack handler: the status is left at its default, 200.
SlackSend(response_type, msg) ==
    Respond([status |-> 200, response_type |-> response_type, text |-> msg])

\* Variant: the catch block of POST /api/ask, status 500.
SlackCatch500(message) ==
    Respond([status |-> 500, response_type |-> "ephemeral",
             text |-> <<"Error: ">> \o message])

\* The catch block of the Slack handler (lines 386-392).
SlackCatch(message) == SlackSend("ephemeral", <<"Error: ">> \o message)

\* Entry of the Slack handler (lines 355-365).
SlackEntry(t) ==
    /\ question' = t
    /\ IF t = ""
       THEN SlackSend("ephemeral", <<"Please provide a question after the slash command.">>)
       ELSE /\ pc' = "embed"
            /\ UNCHANGED <<response, respCount>>

SlackRequest ==
    /\ pc = "idle"
    /\ route' = "slack"
    /\ \E t \in Questions : SlackEntry(t)
    /\ UNCHANGED <<queryEmbedding, similarChunks, trace>>
    /\ HandlerUnchanged

\* POST /: a body with a command is handed to the Slack handler (56-61),
\* anything else gets 404 (63).
RootRequest ==
    /\ pc = "idle"
    /\ \E command \in BOOLEAN :
        IF command
        THEN /\ route' = "forwarded"
             /\ \E t \in Questions : SlackEntry(t)
        ELSE /\ route' = "root"
             /\ Respond([status |-> 404, text |-> <<"Not Found">>])
             /\ UNCHANGED question
    /\ UNCHANGED <<queryEmbedding, similarChunks, trace>>
    /\ HandlerUnchanged

InSlack == route \in {"slack", "forwarded"}

\* getEmbedding answers (line 365).
SlackEmbed ==
    /\ InSlack /\ pc = "embed"
    /\ \E r \in getEmbedding :
        /\ trace' = Append(trace, Event("getEmbedding", r.ok, IF r.ok THEN 0 ELSE r.message))
        /\ IF r.ok
           THEN /\ queryEmbedding' = r.embedding
                /\ pc' = "search"
                /\ UNCHANGED <<response, respCount>>
           ELSE /\ SlackCatch(r.message)
                /\ UNCHANGED queryEmbedding
    /\ UNCHANGED <<route, question, similarChunks>>
    /\ HandlerUnchanged

\* getSimilarChunks answers (lines 368-375).
SlackSearch ==
    /\ InSlack /\ pc = "search"
    /\ \E r \in getSimilarChunks(queryEmbedding) :
        /\ trace' = Append(trace, Event("getSimilarChunks", r.ok, IF r.ok THEN 0 ELSE r.message))
        /\ IF ~r.ok
           THEN /\ SlackCatch(r.message)
                /\ UNCHANGED similarChunks
           ELSE IF NoChunks(r)
           THEN /\ SlackSend("in_channel", <<NoAnswer>>)
                /\ similarChunks' = r.chunks
           ELSE /\ similarChunks' = r.chunks
                /\ pc' = "generate"
                /\ UNCHANGED <<response, respCount>>
    /\ UNCHANGED <<route, question, queryEmbedding>>
    /\ HandlerUnchanged

\* generateResponse answers (lines 378-384).
SlackGenerate ==
    /\ InSlack /\ pc = "generate"
    /\ \E r \in generateResponse(question, similarChunks) :
        /\ trace' = Append(trace, Event("generateResponse", r.ok, IF r.ok THEN 0 ELSE r.message))
        /\ IF r.ok
           THEN SlackSend("in_channel", <<r.answer>>)
           ELSE SlackCatch(r.message)
    /\ UNCHANGED <<route, question, queryEmbedding, similarChunks>>
    /\ HandlerUnchanged

Slack == SlackRequest \/ RootRequest \/ SlackEmbed \/ SlackSearch \/ SlackGenerate

Next == Upload \/ Ask \/ Slack \/ RequestEnd

Spec == Init /\ [][Next]_vars

(***************************************************************************)
(* Properties                                                              *)
(***************************************************************************)
Range(f) == {f[i] : i \in DOMAIN f}
Stages == {"parseFile", "chunkText", "embed", "insertDocument", "insertChunks"}
Rank(op) ==
    CASE op = "parseFile" -> 1
      [] op = "chunkText" -> 2
      [] op = "embed" -> 3
      [] op = "insertDocument" -> 4
      [] op = "insertChunks" -> 5
      [] op = "unlink" -> 6
      [] op = "getEmbedding" -> 1
      [] op = "getSimilarChunks" -> 2
      [] op = "generateResponse" -> 3
Calls(op) == {i \in DOMAIN trace : trace[i].op = op}
FailedCalls == {i \in DOMAIN trace : ~trace[i].ok /\ trace[i].op # "unlink"}
UploadWithFile == route = "upload" /\ filename # 0
UploadFinished == UploadWithFile /\ pc = "done"
OwnDocuments == {d \in documents : d.filename = filename}
OwnChunkRows == {r \in chunkRows : \E d \in OwnDocuments : r.document_id = d.id}

\* C1: once an upload has been answered, its Document row and all of its Chunk
\* rows are in the store, or none of them is; a failed chunks insert leaves no
\* Document row behind.
C1_StoreAtomic ==
    UploadFinished =>
        /\ \/ OwnDocuments = {} /\ OwnChunkRows = {}
           \/ /\ Cardinality(OwnDocuments) = 1
              /\ Cardinality(OwnChunkRows) = Len(chunks)
              /\ \A i \in Calls("insertChunks") : trace[i].ok
        /\ (\E i \in Calls("insertChunks") : ~trace[i].ok) => OwnDocuments = {}

\* C2: when the response of an upload that reached the handler with a file is
\* sent, a deletion of the upload file has been attempted, and if the last
\* attempt succeeded the file does not exist.
C2_CleanupAttempted ==
    (UploadWithFile /\ response # NoResponse) =>
        /\ Calls("unlink") # {}
        /\ trace[Len(trace)].op = "unlink"
        /\ (\E i \in Calls("unlink") : trace[i].ok) => ~fileExists

C2_Witness ==
    /\ UploadFinished
    /\ response.status = 500
    /\ \E i \in Calls("embed") : ~trace[i].ok
    /\ ~fileExists

\* C3: the stages of an upload run in the order parse, chunk, embed, store; after
\* a failed stage the only calls are deletions of the upload file, nothing of a
\* batch whose embedding failed is stored, and one error response is sent.
C3_ShortCircuit ==
    route = "upload" =>
        /\ \A i, j \in DOMAIN trace : i < j => Rank(trace[i].op) <= Rank(trace[j].op)
        /\ \A i \in FailedCalls : \A j \in DOMAIN trace : i < j => trace[j].op = "unlink"
        /\ Cardinality(FailedCalls) <= 1
        /\ \A i \in FailedCalls :
              trace[i].op \in {"parseFile", "embed"} =>
                  /\ OwnDocuments = {} /\ OwnChunkRows = {}
                  /\ Calls("insertDocument") = {} /\ Calls("insertChunks") = {}
        /\ respCount <= 1
        /\ (FailedCalls # {} /\ response # NoResponse) => response.status = 500

C3_Witness ==
    /\ UploadFinished
    /\ \E i, j \in Calls("embed") : trace[i].ok /\ ~trace[j].ok
    /\ Len(embeddings) < Len(chunks)

\* C4: a failed deletion of the upload file never decides the response: with all
\* five stages successful the summary is sent, and after a failed stage the
\* response carries that stage's error.
C4_CleanupNeverReported ==
    UploadFinished =>
        /\ (FailedCalls = {} /\ Calls("insertChunks") # {}) => response.status = 200
        /\ \A i \in FailedCalls : response = [status |-> 500, error |-> trace[i].arg]

\* C5: the Slack handler, also when reached through POST /, sends one response,
\* with status 200; after a failed call it is ephemeral and its text begins with
\* "Error:", and in_channel is sent only when no call failed.
C5_SlackAlways200 ==
    InSlack =>
        /\ respCount <= 1
        /\ (pc = "done") = (respCount = 1)
        /\ response # NoResponse =>
              /\ response.status = 200
              /\ FailedCalls # {} =>
                    /\ response.response_type = "ephemeral"
                    /\ response.text[1] = "Error: "
              /\ response.response_type = "in_channel" => FailedCalls = {}

C5_Witness ==
    /\ route = "forwarded" /\ pc = "done"
    /\ \E i \in Calls("generateResponse") : ~trace[i].ok
    /\ response.status = 200

\* C6: POST /api/ask calls embed, search, generate in this order; an empty or
\* null search result is answered with the fixed answer and no chunks without a
\* call of the generator; a non-empty one calls the generator once and the
\* answer's chunks are the retrieved ones, in their order.
C6_NoChunksNoGenerator ==
    route = "ask" =>
        /\ \A i, j \in DOMAIN trace : i < j => Rank(trace[i].op) < Rank(trace[j].op)
        /\ pc = "done" =>
              /\ (\E i \in Calls("getSimilarChunks") : trace[i].ok) /\ similarChunks = <<>>
                    => /\ response = [status |-> 200, answer |-> NoAnswer, chunks |-> <<>>]
                       /\ Calls("generateResponse") = {}
              /\ similarChunks # <<>> =>
                    /\ Cardinality(Calls("generateResponse")) = 1
                    /\ FailedCalls = {} =>
                          /\ response.status = 200
                          /\ Len(response.chunks) = Len(similarChunks)
                          /\ \A i \in DOMAIN similarChunks :
                                /\ response.chunks[i].content = similarChunks[i].content
                                /\ response.chunks[i].similarity = similarChunks[i].similarity

C6_Witness ==
    /\ route = "ask" /\ pc = "done"
    /\ \E i \in Calls("getSimilarChunks") : trace[i].ok
    /\ similarChunks = <<>>
    /\ response.status = 200

\* C7: after a successful upload of a file with text T the new Document owns
\* exactly the rows (i, chunkText(T)[i], embedding returned by the i-th embedding
\* call) for i = 0..n-1, and chunks_count is n = Len(chunkText(T)).
C7_StoredChunksPositional ==
    (UploadFinished /\ response.status = 200) =>
        LET expected == chunkText(text)
            n == Len(expected)
            rows == {r \in chunkRows : r.document_id = response.document.id}
            calls == SelectSeq(trace, LAMBDA e : e.op = "embed")
        IN  /\ response.document \in documents
            /\ response.document.filename = filename
            /\ Cardinality(rows) = n
            /\ {r.chunk_index : r \in rows} = 0..(n - 1)
            /\ Len(calls) = n
            /\ \A r \in rows :
                  /\ r.content = expected[r.chunk_index + 1]
                  /\ r.embedding = calls[r.chunk_index + 1].arg
            /\ response.chunks_count = n

C7_Witness ==
    /\ UploadFinished /\ response.status = 200
    /\ Len(chunks) = 2
    /\ chunks[1] # chunks[2]
    /\ embeddings[1] # embeddings[2]

(***************************************************************************)
(* Properties of chunkText                                                 *)
(***************************************************************************)
Returned == route = "chunkText" /\ pc = "returned"
IsTerminator(c) == c \in Range(Terminators)

\* C8: a non-empty text of at most chunkSize characters gives exactly one chunk,
\* the trimmed text; the empty text gives no chunk.
C8_ShortInputOneChunk ==
    Returned =>
        /\ Len(text) = 0 => chunks = <<>>
        /\ (0 < Len(text) /\ Len(text) <= chunkSize) => chunks = <<trim(text)>>

\* C9: the windows start at 0, each next window starts overlap characters before
\* the end of the previous one and after its start, every position of the text
\* is inside a window once chunkText has returned, and without a terminator the
\* starts are 0, 800, 1600, ...
C9_WindowsCover ==
    route = "chunkText" =>
        /\ windows # <<>> => windows[1].start = 0
        /\ \A i \in 1..(Len(windows) - 1) :
              /\ windows[i + 1].start = windows[i].end - 200
              /\ windows[i + 1].start > windows[i].start
        /\ \A i \in DOMAIN windows : windows[i].start < windows[i].end
        /\ pc = "returned" =>
              \A p \in 0..(Len(text) - 1) :
                  \E i \in DOMAIN windows : windows[i].start <= p /\ p < windows[i].end
        /\ (\A p \in DOMAIN text : ~IsTerminator(text[p])) =>
              \A i \in DOMAIN windows : windows[i].start = (i - 1) * 800

C9_Witness ==
    /\ Returned
    /\ Len(windows) >= 3
    /\ \E i \in DOMAIN windows : windows[i].end - windows[i].start < chunkSize

\* C10: a window that ends before the end of the text is cut right after the
\* last terminator of the window when that terminator lies at window offset
\* 800..999, and keeps the 1000-character cut otherwise; a window that reaches the
\* end of the text is never cut short.
C10_SentenceBoundaryCut ==
    route = "chunkText" =>
        \A i \in DOMAIN windows :
            LET s == windows[i].start
                raw == s + 1000
                offs == {o \in 0..999 : s + o < Len(text) /\ IsTerminator(text[s + o + 1])}
            IN  IF raw < Len(text) /\ offs # {} /\ SetMax(offs) >= 800
                THEN windows[i].end = s + SetMax(offs) + 1
                ELSE windows[i].end = raw

\* C11: chunkText terminates: every iteration ran with the window start below
\* the text length and moved it strictly forward, the start never passes the
\* text length by a whole window, the loop is left only with the start at or
\* beyond the text length, and the number of iterations and of chunks never
\* exceeds the text length.
C11_ChunkerTerminates ==
    route = "chunkText" =>
        /\ \A i \in DOMAIN windows :
              /\ windows[i].start < Len(text)
              /\ windows[i].start <
                    (IF i < Len(windows) THEN windows[i + 1].start ELSE startIndex)
        /\ startIndex < Len(text) + chunkSize
        /\ pc = "returned" => startIndex >= Len(text)
        /\ Len(windows) <= Len(text)
        /\ Len(chunks) = Len(windows)

C11_Witness ==
    /\ Returned
    /\ Len(chunks) >= 3
    /\ Len(chunks) = Len(windows)
    /\ startIndex >= Len(text)
    /\ \E i \in DOMAIN windows :
          windows[i].start > 0 /\ windows[i].end < windows[i].start + chunkSize

====
